---- MODULE Spec2Model ----
(***************************************************************************)
(* Validator deposit submitter: the batch driver of deposit.py, the chain  *)
(* it talks to, and the ledger file successful_deposits.json shared with   *)
(* populate_successful.py.                                                 *)
(*                                                                         *)
(* Strings that the code parses (hex fields) are sequences of one-letter   *)
(* strings, so that bytes.fromhex is modelled by what it does.  Amounts    *)
(* are in whole ETH; fees are in wei, as exact fractions where the code    *)
(* computes a float.                                                       *)
(***************************************************************************)
EXTENDS Integers, Sequences, FiniteSets, TLC

\* ------------------------------------------------------------------ bounds
MaxRecords == 2
MaxRuns == 2
\* Fee amounts are in wei at a reduced scale: this many wei to the gwei.
WeiPerGwei == 4

\* ------------------------------------------------------- program constants
required_balance == 32
max_retries == 3
max_attempts == 50

required_fields == <<"pubkey", "withdrawal_credentials", "signature", "deposit_data_root">>

FieldSet == {required_fields[k] : k \in 1..Len(required_fields)}

\* --------------------------------------------------------------- hex fields
HexDigits ==
    {"0", "1", "2", "3", "4", "5", "6", "7", "8", "9",
     "a", "b", "c", "d", "e", "f", "A", "B", "C", "D", "E", "F"}

\* bytes.fromhex(s) returns (TRUE) or raises ValueError (FALSE): an even
\* number of hex digits.
FromHexOk(s) ==
    /\ Len(s) % 2 = 0
    /\ \A k \in 1..Len(s) : s[k] \in HexDigits

DigitChars == <<"1", "2", "3", "4", "5", "6", "7", "8", "9">>

\* The pubkey of the k-th record: identity = pubkey, unique within a batch.
Pk(k) == <<"a", DigitChars[k]>>
Pubkeys == {Pk(k) : k \in 1..MaxRecords}
HexOk == <<"c", "3">>
OddHex == <<"a">>
NonHex == <<"z", "z">>
BadHexValues == {OddHex, NonHex}

\* ------------------------------------------------------------------- input
Good(p) == [f \in FieldSet |-> IF f = "pubkey" THEN p ELSE HexOk]

Without(e, f) == [g \in (DOMAIN e) \ {f} |-> e[g]]

\* e with one field missing or one field not hex.
Defective(e) ==
    {Without(e, f) : f \in FieldSet}
    \cup {[e EXCEPT ![f] = v] : f \in FieldSet, v \in BadHexValues}

GoodBatch(n) == [k \in 1..n |-> Good(Pk(k))]

\* Batches of up to MaxRecords records, at most one of them defective.
OneDefective(n, k) ==
    {[GoodBatch(n) EXCEPT ![k] = e] : e \in Defective(Good(Pk(k)))}

Inputs ==
    UNION {{GoodBatch(n)} \cup UNION {OneDefective(n, k) : k \in 1..n} :
              n \in 1..MaxRecords}

HasPubkey(e) == "pubkey" \in DOMAIN e

Balances == {31, 32, 65}

\* ------------------------------------------------------------- ledger file
Absent == [kind |-> "absent", ids |-> {}]
Corrupt == [kind |-> "corrupt", ids |-> {}]
Stored(s) == [kind |-> "ok", ids |-> s]

LedgerIds(file) == IF file.kind = "ok" THEN file.ids ELSE {}

\* load_successful_deposits: the stored set; the empty set when the file is
\* absent, when it does not parse, or when reading it raises (io_ok false).
load_successful_deposits(file, io_ok) ==
    IF file.kind = "ok" /\ io_ok THEN file.ids ELSE {}

WriteOutcomes == {"ok", "open_fails", "dump_fails"}

\* open(..., 'w') truncates, json.dump writes the list.
WriteFile(file, ids, wr) ==
    CASE wr = "ok" -> Stored(ids)
      [] wr = "open_fails" -> file
      [] OTHER -> Corrupt

save_successful_deposit(file, pubkey, io_ok, wr) ==
    WriteFile(file, load_successful_deposits(file, io_ok) \cup {pubkey}, wr)

\* -------------------------------------------------------------- validation
validate_deposit_data(entry) ==
    \A k \in 1..Len(required_fields) :
        /\ required_fields[k] \in DOMAIN entry
        /\ FromHexOk(entry[required_fields[k]])

\* -------------------------------------------------------------------- fees
\* Web3.to_wei(n, 'gwei')
to_wei(n) == n * WeiPerGwei

\* A fee is <<numerator, denominator>>: sum(...) / len(...) is a true division.
Whole(n) == <<n, 1>>

FeeGE(f, g) == f[1] * g[2] >= g[1] * f[2]

RECURSIVE sum(_)
sum(s) == IF s = <<>> THEN 0 ELSE Head(s) + sum(Tail(s))

\* Answers of w3.eth.fee_history: the call raises, the answer lacks the
\* reward list, the reward list is empty, and an answer with rewards (one
\* block without transactions has an empty reward entry).
RpcFailure == [error |-> "rpc"]
NoRewardKey == [baseFeePerGas |-> <<2, 1>>]
EmptyReward == [baseFeePerGas |-> <<2, 1>>, reward |-> <<>>]
WithRewards ==
    [baseFeePerGas |-> <<2, 1>>, reward |-> <<<<1, 2, 3>>, <<>>, <<2, 3, 3>>>>]
FeeHistories == {RpcFailure, NoRewardKey, EmptyReward, WithRewards}

\* [reward[0] for reward in fee_history['reward'] if reward]
priority_fees(reward) ==
    LET given == SelectSeq(reward, LAMBDA r : r # <<>>)
    IN  [k \in 1..Len(given) |-> given[k][1]]

\* Something in the try block of get_gas_price raises.
GasPriceRaises(fee_history) ==
    \/ "error" \in DOMAIN fee_history
    \/ "baseFeePerGas" \notin DOMAIN fee_history
    \/ fee_history["baseFeePerGas"] = <<>>
    \/ "reward" \notin DOMAIN fee_history

\* Lines 104-114: base fee of the latest block plus the mean of the medians.
max_fee_per_gas(fee_history) ==
    LET base_fee == fee_history["baseFeePerGas"][Len(fee_history["baseFeePerGas"])]
        fees == priority_fees(fee_history["reward"])
    IN  IF fees = <<>>
        THEN Whole(base_fee + to_wei(2))
        ELSE <<base_fee * Len(fees) + sum(fees), Len(fees)>>

\* The except clause returns nothing usable.
get_gas_price_NoFallback(fee_history) ==
    IF GasPriceRaises(fee_history) THEN Whole(0) ELSE max_fee_per_gas(fee_history)

get_gas_price(fee_history) ==
    IF GasPriceRaises(fee_history)
    THEN Whole(to_wei(50))
    ELSE max_fee_per_gas(fee_history)

\* The fee goes down instead of up.
IncreaseFee_Halves(fee) == Whole(fee[1] \div (2 * fee[2]))

\* int(tx['maxFeePerGas'] * 1.5)
IncreaseFee(fee) == Whole((3 * fee[1]) \div (2 * fee[2]))

\* What estimate_gas answers, and int(estimated_gas * 1.2).
estimated_gas == 5
GasLimit(estimate) == (estimate * 12) \div 10

\* ------------------------------------------------------------------- state
VARIABLES
    deposit_data,          \* the input list (DEPOSIT_DATA_FILE), fixed
    ledgerFile,            \* successful_deposits.json
    chainNonce,            \* get_transaction_count(FROM_ADDRESS, "latest")
    balance,               \* get_balance(FROM_ADDRESS), whole ETH
    txs,                   \* every transaction the chain accepted, in order
    run,                   \* number of the current invocation of deposit.py
    pc,                    \* where the current invocation is
    i,                     \* loop index (1-based)
    successful_deposits,   \* the set loaded at the start of the run
    ledgerAtLoad,          \* what the ledger file held when the run loaded it
    max_validators,
    processed_count,
    tx,                    \* the transaction being built / sent / awaited
    outcome,               \* per record of this run: how it ended
    calls,                 \* per-run log of <<record index, chain call>>
    lpc,                   \* per saving process: where its save call is
    arg,                   \* per saving process: the pubkeys it adds
    successful,            \* per saving process: its local set `successful`
    before,                \* per saving process: the ledger when it was called
    fault,                 \* per saving process: the I/O error it met, if any
    wpc,                   \* where a call of wait_for_transaction is
    polls,                 \* get_transaction_receipt queries that call has made
    waited,                \* how that call ended
    mpc,                   \* where a two-step merge into the ledger is
    mergeA,                \* the two pubkey sets being merged
    mergeB,
    ledgerAB,              \* the ledger file when A is merged first
    ledgerBA               \* the ledger file when B is merged first

procVars == <<lpc, arg, successful, before, fault>>
waitVars == <<wpc, polls, waited>>
mergeVars == <<mpc, mergeA, mergeB, ledgerAB, ledgerBA>>

\* Everything the batch driver's own steps leave alone.
sideVars == <<procVars, waitVars, mergeVars>>

vars ==
    <<deposit_data, ledgerFile, chainNonce, balance, txs, run, pc, i,
      successful_deposits, ledgerAtLoad, max_validators, processed_count, tx,
      outcome, calls, procVars, waitVars, mergeVars>>

\* Two processes that may write the ledger file at the same time.
Procs == {1, 2}

NoTx == [nonce |-> -1, id |-> 0]

\* Lines 215-226: the transaction dict, with the attempt counter of
\* send_transaction and the fee_history answer its fee was computed from.
NewTx(nonce, fee_history, estimate) ==
    [nonce |-> nonce, id |-> 0,
     to |-> "DEPOSIT_CONTRACT", value |-> required_balance,
     data |-> deposit_data[i], gas |-> GasLimit(estimate),
     maxFeePerGas |-> get_gas_price(fee_history),
     maxPriorityFeePerGas |-> Whole(to_wei(2)),
     attempt |-> 0, fee_history |-> fee_history]

Records == 1..Len(deposit_data)

entry == deposit_data[i]

AllPending == [j \in Records |-> "Pending"]

\* Pubkeys the chain has seen a successful deposit for.
Deposited == {txs[k].pubkey : k \in {n \in 1..Len(txs) : txs[n].status = "ok"}}

Init ==
    /\ deposit_data \in Inputs
    /\ ledgerFile \in {Absent, Corrupt} \cup {Stored(s) : s \in SUBSET Pubkeys}
    /\ chainNonce = 0
    /\ balance \in Balances
    /\ txs = <<>>
    /\ run = 0
    /\ pc = "idle"
    /\ i = 1
    /\ successful_deposits = {}
    /\ ledgerAtLoad = {}
    /\ max_validators = 0
    /\ processed_count = 0
    /\ tx = NoTx
    /\ outcome = AllPending
    /\ calls = {}
    /\ lpc = [p \in Procs |-> "idle"]
    /\ arg = [p \in Procs |-> {}]
    /\ successful = [p \in Procs |-> {}]
    /\ before = [p \in Procs |-> Absent]
    /\ fault = [p \in Procs |-> "none"]
    /\ wpc = "idle"
    /\ polls = 0
    /\ waited = "none"
    /\ mpc = "idle"
    /\ mergeA = {}
    /\ mergeB = {}
    /\ ledgerAB = ledgerFile
    /\ ledgerBA = ledgerFile

chainVars == <<chainNonce, balance, txs>>
runVars == <<run, successful_deposits, ledgerAtLoad, max_validators>>

\* ----------------------------------------------------------- batch driver
\* Lines 153-165: load the ledger, read the balance, derive the capacity.
Startup ==
    /\ run' = run + 1
    /\ \E io_ok \in BOOLEAN :
           successful_deposits' = load_successful_deposits(ledgerFile, io_ok)
    /\ ledgerAtLoad' = LedgerIds(ledgerFile)
    /\ max_validators' = balance \div required_balance
    /\ processed_count' = 0
    /\ i' = 1
    /\ pc' = "loop"
    /\ tx' = NoTx
    /\ outcome' = AllPending
    /\ calls' = {}
    /\ UNCHANGED <<sideVars, deposit_data, ledgerFile, chainVars>>

\* One invocation of deposit.py.
RunStart == pc = "idle" /\ Startup

\* The operator invokes deposit.py again over the same input.
Rerun ==
    /\ pc \in {"done", "halted", "aborted"}
    /\ run < MaxRuns
    /\ Startup

AtRecord == pc = "loop" /\ i \in Records

\* `continue`: on to the next record.
Continue(result) ==
    /\ outcome' = [outcome EXCEPT ![i] = result]
    /\ i' = i + 1
    /\ pc' = "loop"
    /\ tx' = NoTx

\* Line 171 evaluates entry["pubkey"] outside every try block.
MissingPubkey ==
    /\ AtRecord
    /\ ~HasPubkey(entry)
    /\ outcome' = [outcome EXCEPT ![i] = "KeyError"]
    /\ pc' = "aborted"
    /\ UNCHANGED <<sideVars, deposit_data, ledgerFile, chainVars, runVars, i,
                   processed_count, tx, calls>>

\* The filter looks the pubkey up in a set that was never loaded.
AlreadyDone_Unloaded == entry["pubkey"] \in {}

AlreadyDone == entry["pubkey"] \in successful_deposits

SkipAlreadyDone ==
    /\ AtRecord
    /\ HasPubkey(entry)
    /\ AlreadyDone
    /\ Continue("AlreadyDone")
    /\ UNCHANGED <<sideVars, deposit_data, ledgerFile, chainVars, runVars,
                   processed_count, calls>>

\* Off by one: the check lets one more record through.
OverCapacity_OffByOne == processed_count > max_validators

OverCapacity == processed_count >= max_validators

\* Reached the ledger filter and passed it.
NotDone == AtRecord /\ HasPubkey(entry) /\ ~AlreadyDone

CapacityHalt ==
    /\ NotDone
    /\ OverCapacity
    /\ outcome' = [outcome EXCEPT ![i] = "OverCapacity"]
    /\ pc' = "halted"
    /\ UNCHANGED <<sideVars, deposit_data, ledgerFile, chainVars, runVars, i,
                   processed_count, tx, calls>>

SkipInvalid ==
    /\ NotDone
    /\ ~OverCapacity
    /\ ~validate_deposit_data(entry)
    /\ calls' = calls \cup {<<i, "validate">>}
    /\ Continue("Invalid")
    /\ UNCHANGED <<sideVars, deposit_data, ledgerFile, chainVars, runVars, processed_count>>

Eligible == NotDone /\ ~OverCapacity /\ validate_deposit_data(entry)

\* encode (line 192), get_transaction_count (line 200) or chain_id (line 217)
\* raises: the outer except (line 244) logs and continues.
RpcError ==
    /\ Eligible
    /\ \E at \in {"encode", "get_transaction_count", "chain_id"} :
           calls' = calls \cup {<<i, "validate">>}
               \cup (IF at # "encode" THEN {<<i, "get_transaction_count">>} ELSE {})
               \cup (IF at = "chain_id"
                     THEN {<<i, "get_gas_price">>, <<i, "estimate_gas">>}
                     ELSE {})
    /\ Continue("Error")
    /\ UNCHANGED <<sideVars, deposit_data, ledgerFile, chainVars, runVars, processed_count>>

\* The except clause lacks its `continue`: the record goes on to the send.
EstimateGasFails_FallsThrough ==
    /\ Eligible
    /\ calls' = calls \cup
           {<<i, "validate">>, <<i, "get_transaction_count">>, <<i, "get_gas_price">>,
            <<i, "estimate_gas">>}
    /\ outcome' = [outcome EXCEPT ![i] = "EstimateFailed"]
    /\ \E fee_history \in FeeHistories :
           tx' = NewTx(chainNonce, fee_history, estimated_gas)
    /\ pc' = "send"
    /\ UNCHANGED <<sideVars, deposit_data, ledgerFile, chainVars, runVars, i,
                   processed_count>>

\* Lines 203-213: estimate_gas raises, the record is abandoned.
EstimateGasFails ==
    /\ Eligible
    /\ calls' = calls \cup
           {<<i, "validate">>, <<i, "get_transaction_count">>, <<i, "get_gas_price">>,
            <<i, "estimate_gas">>}
    /\ Continue("EstimateFailed")
    /\ UNCHANGED <<sideVars, deposit_data, ledgerFile, chainVars, runVars, processed_count>>

\* Lines 184-226: the transaction is built with the "latest" account nonce.
BuildTx ==
    /\ Eligible
    /\ calls' = calls \cup
           {<<i, "validate">>, <<i, "get_transaction_count">>, <<i, "get_gas_price">>,
            <<i, "estimate_gas">>}
    /\ \E fee_history \in FeeHistories :
           tx' = NewTx(chainNonce, fee_history, estimated_gas)
    /\ pc' = "send"
    /\ UNCHANGED <<sideVars, deposit_data, ledgerFile, chainVars, runVars, i,
                   processed_count, outcome>>

\* ------------------------------------------------------------------ chain
\* The pool takes a transaction whose nonce is not yet used by a mined one,
\* whose value the account can pay and whose fee cap covers its tip.
ChainAccepts(t) ==
    /\ t.nonce >= chainNonce
    /\ balance >= required_balance
    /\ FeeGE(t.maxFeePerGas, t.maxPriorityFeePerGas)

\* A pending transaction with the same nonce is replaced.
Replace(log, n) ==
    [k \in 1..Len(log) |->
        IF log[k].status = "pending" /\ log[k].nonce = n
        THEN [log[k] EXCEPT !.status = "dropped"]
        ELSE log[k]]

\* Lines 125-128: an attempt of send_transaction is accepted; the hash is
\* returned.
SendAccepted ==
    /\ pc = "send"
    /\ ChainAccepts(tx)
    /\ txs' = Append(Replace(txs, tx.nonce),
                     [idx |-> i, pubkey |-> entry["pubkey"], nonce |-> tx.nonce,
                      run |-> run, status |-> "pending"])
    /\ tx' = [tx EXCEPT !.id = Len(txs) + 1]
    /\ calls' = calls \cup {<<i, "sign">>, <<i, "send">>}
    /\ pc' = "wait"
    /\ UNCHANGED <<sideVars, deposit_data, ledgerFile, chainNonce, balance, runVars, i,
                   processed_count, outcome>>

\* One attempt too many.
MayRetry_OneMore == tx.attempt < max_retries

\* Line 131: attempt < max_retries - 1
MayRetry == tx.attempt < max_retries - 1

\* The retry builds the transaction anew, with the account nonce of now.
SendRetry_Rebuilds ==
    /\ pc = "send"
    /\ MayRetry
    /\ tx' = [tx EXCEPT !.maxFeePerGas = IncreaseFee(@), !.attempt = @ + 1,
                        !.nonce = chainNonce]
    /\ calls' = calls \cup {<<i, "sign">>}
    /\ UNCHANGED <<sideVars, deposit_data, ledgerFile, chainVars, runVars, pc, i,
                   processed_count, outcome>>

\* Lines 129-136: the attempt raises and is not the last: raise the fee cap
\* of the same dict and go round the loop again.
SendRetry ==
    /\ pc = "send"
    /\ MayRetry
    /\ tx' = [tx EXCEPT !.maxFeePerGas = IncreaseFee(@), !.attempt = @ + 1]
    /\ calls' = calls \cup {<<i, "sign">>}
    /\ UNCHANGED <<sideVars, deposit_data, ledgerFile, chainVars, runVars, pc, i,
                   processed_count, outcome>>

\* The last attempt raises (line 138); the except of line 240 continues.
SendFails ==
    /\ pc = "send"
    /\ ~MayRetry
    /\ calls' = calls \cup {<<i, "sign">>}
    /\ Continue("SendFailed")
    /\ UNCHANGED <<sideVars, deposit_data, ledgerFile, chainVars, runVars, processed_count>>

\* The receipt the polls of wait_for_transaction find, if any.
WaitOutcome(status) ==
    CASE status = "ok" -> "Confirmed"
      [] status = "reverted" -> "Reverted"
      [] OTHER -> "TimedOut"

\* Any receipt counts as success: its status is not looked at.
wait_for_transaction_AnyReceipt(status) == WaitOutcome(status) # "TimedOut"

wait_for_transaction(status) == WaitOutcome(status) = "Confirmed"

\* The except clause of save_successful_deposit (lines 59-60) logs the error.
SaveLog(wr) == IF wr = "ok" THEN {} ELSE {<<i, "save_error">>}

\* A record counts only when its identity was written.
WaitAndSave_CountsSavedOnly ==
    /\ pc = "wait"
    /\ LET st == txs[tx.id].status IN
       /\ IF wait_for_transaction(st)
          THEN \E io_ok \in BOOLEAN, wr \in WriteOutcomes :
                  /\ ledgerFile' =
                         save_successful_deposit(ledgerFile, entry["pubkey"], io_ok, wr)
                  /\ calls' = calls \cup SaveLog(wr)
                  /\ processed_count' =
                         IF wr = "ok" THEN processed_count + 1 ELSE processed_count
          ELSE UNCHANGED <<ledgerFile, processed_count, calls>>
       /\ Continue(WaitOutcome(st))
    /\ UNCHANGED <<sideVars, deposit_data, chainVars, runVars>>

\* Lines 232-238: wait, and on confirmation save and count.
WaitAndSave ==
    /\ pc = "wait"
    /\ LET st == txs[tx.id].status IN
       /\ IF wait_for_transaction(st)
          THEN /\ \E io_ok \in BOOLEAN, wr \in WriteOutcomes :
                      /\ ledgerFile' =
                             save_successful_deposit(ledgerFile, entry["pubkey"], io_ok, wr)
                      /\ calls' = calls \cup SaveLog(wr)
               /\ processed_count' = processed_count + 1
          ELSE UNCHANGED <<ledgerFile, processed_count, calls>>
       /\ Continue(WaitOutcome(st))
    /\ UNCHANGED <<sideVars, deposit_data, chainVars, runVars>>

\* get_transaction_receipt raises something other than TransactionNotFound:
\* wait_for_transaction lets it through and the except of line 240 continues.
WaitRaises ==
    /\ pc = "wait"
    /\ Continue("Error")
    /\ UNCHANGED <<sideVars, deposit_data, ledgerFile, chainVars, runVars,
                   processed_count, calls>>

EndOfBatch ==
    /\ pc = "loop"
    /\ i > Len(deposit_data)
    /\ pc' = "done"
    /\ UNCHANGED <<sideVars, deposit_data, ledgerFile, chainVars, runVars, i,
                   processed_count, tx, outcome, calls>>

\* The chain includes a pending transaction, successfully or reverted.
Mine ==
    \E k \in 1..Len(txs), st \in {"ok", "reverted"} :
        /\ txs[k].status = "pending"
        /\ txs[k].nonce = chainNonce
        /\ st = "ok" => balance >= required_balance
        /\ txs' = [txs EXCEPT ![k].status = st]
        /\ chainNonce' = chainNonce + 1
        /\ balance' = IF st = "ok" THEN balance - required_balance ELSE balance
        /\ UNCHANGED <<sideVars, deposit_data, ledgerFile, runVars, pc, i,
                       processed_count, tx, outcome, calls>>

Next ==
    \/ RunStart
    \/ MissingPubkey
    \/ SkipAlreadyDone
    \/ CapacityHalt
    \/ SkipInvalid
    \/ RpcError
    \/ EstimateGasFails
    \/ BuildTx
    \/ SendAccepted
    \/ SendRetry
    \/ SendFails
    \/ WaitAndSave
    \/ WaitRaises
    \/ EndOfBatch
    \/ Mine

\* ------------------------------------------------ ledger writers, stepwise
\* save_successful_deposit (deposit.py) and save_successful_deposits
\* (populate_successful.py) as the processes that run them execute them: load,
\* add, open for writing (which truncates), dump.  A process may die at any
\* point of its call.
driverVars ==
    <<deposit_data, chainNonce, balance, txs, run, pc, i, successful_deposits,
      ledgerAtLoad, max_validators, processed_count, tx, outcome, calls>>

\* The pubkeys populate_successful.py passes: those of the first 10 entries.
FirstTen == {k \in Records : k <= 10}

PopulateArgs ==
    IF \A k \in FirstTen : HasPubkey(deposit_data[k])
    THEN {{deposit_data[k]["pubkey"] : k \in FirstTen}}
    ELSE {}

\* The pubkey deposit.py passes: that of a record it confirmed.
DepositArgs ==
    {{deposit_data[k]["pubkey"]} :
        k \in {n \in Records : validate_deposit_data(deposit_data[n])}}

SaveCall(p) ==
    /\ lpc[p] = "idle"
    /\ \E a \in DepositArgs \cup PopulateArgs : arg' = [arg EXCEPT ![p] = a]
    /\ before' = [before EXCEPT ![p] = ledgerFile]
    /\ lpc' = [lpc EXCEPT ![p] = "called"]
    /\ UNCHANGED <<driverVars, waitVars, mergeVars, ledgerFile, successful, fault>>

\* successful = load_successful_deposits(); successful.add / update
SaveLoad(p) ==
    /\ lpc[p] = "called"
    /\ \E io_ok \in BOOLEAN :
         /\ successful' =
                [successful EXCEPT
                    ![p] = load_successful_deposits(ledgerFile, io_ok) \cup arg[p]]
         /\ fault' = [fault EXCEPT ![p] = IF io_ok THEN "none" ELSE "load_failed"]
    /\ lpc' = [lpc EXCEPT ![p] = "added"]
    /\ UNCHANGED <<driverVars, waitVars, mergeVars, ledgerFile, arg, before>>

\* open(SUCCESSFUL_DEPOSITS_FILE, 'w'): the file is empty from here on, or the
\* open raises and the except clause ends the call.
SaveOpen(p) ==
    /\ lpc[p] = "added"
    /\ \E wr \in {"ok", "open_fails"} :
         /\ ledgerFile' = IF wr = "ok" THEN Corrupt ELSE ledgerFile
         /\ lpc' = [lpc EXCEPT ![p] = IF wr = "ok" THEN "opened" ELSE "returned"]
         /\ fault' = [fault EXCEPT ![p] = IF wr = "ok" THEN @ ELSE "open_failed"]
    /\ UNCHANGED <<driverVars, waitVars, mergeVars, arg, successful, before>>

\* json.dump(list(successful), f) and the close, or an error while writing.
SaveDump(p) ==
    /\ lpc[p] = "opened"
    /\ \E wr \in {"ok", "dump_fails"} :
         /\ ledgerFile' = WriteFile(ledgerFile, successful[p], wr)
         /\ fault' = [fault EXCEPT ![p] = IF wr = "ok" THEN @ ELSE "dump_failed"]
    /\ lpc' = [lpc EXCEPT ![p] = "returned"]
    /\ UNCHANGED <<driverVars, waitVars, mergeVars, arg, successful, before>>

\* The process is killed inside its call.
Crash(p) ==
    /\ lpc[p] \in {"called", "added", "opened"}
    /\ lpc' = [lpc EXCEPT ![p] = "crashed"]
    /\ UNCHANGED <<driverVars, waitVars, mergeVars, ledgerFile, arg, successful, before, fault>>

NextLedger ==
    \E p \in Procs :
        \/ SaveCall(p)
        \/ SaveLoad(p)
        \/ SaveOpen(p)
        \/ SaveDump(p)
        \/ Crash(p)

\* Saving processes sharing one ledger file.
InitLedger == Init /\ balance = required_balance

SpecLedger == InitLedger /\ [][NextLedger]_vars

\* ------------------------------------------- wait_for_transaction, by poll
\* One call of wait_for_transaction, one get_transaction_receipt query per
\* step; the chain answers each query as it pleases.
WaitCall ==
    /\ wpc = "idle"
    /\ wpc' = "polling"
    /\ polls' = 0
    /\ waited' = "none"
    /\ UNCHANGED <<driverVars, procVars, mergeVars, ledgerFile>>

\* The loop goes round once more than it should.
PollsLeft_OneMore == polls <= max_attempts

\* for _ in range(max_attempts)
PollsLeft == polls < max_attempts

\* except TransactionNotFound: sleep, next iteration.
PollNotFound ==
    /\ wpc = "polling"
    /\ PollsLeft
    /\ polls' = polls + 1
    /\ UNCHANGED <<driverVars, procVars, mergeVars, ledgerFile, wpc, waited>>

\* A receipt: status 1 returns True, any other status returns False.
PollReceipt ==
    /\ wpc = "polling"
    /\ PollsLeft
    /\ polls' = polls + 1
    /\ \E status \in {"ok", "reverted"} : waited' = WaitOutcome(status)
    /\ wpc' = "returned"
    /\ UNCHANGED <<driverVars, procVars, mergeVars, ledgerFile>>

\* Any other exception leaves the function.
PollRaises ==
    /\ wpc = "polling"
    /\ PollsLeft
    /\ polls' = polls + 1
    /\ waited' = "Raised"
    /\ wpc' = "raised"
    /\ UNCHANGED <<driverVars, procVars, mergeVars, ledgerFile>>

\* Lines 91-92: the loop is over without a receipt.
WaitTimeout ==
    /\ wpc = "polling"
    /\ ~PollsLeft
    /\ waited' = WaitOutcome("pending")
    /\ wpc' = "returned"
    /\ UNCHANGED <<driverVars, procVars, mergeVars, ledgerFile, polls>>

NextWait == WaitCall \/ PollNotFound \/ PollReceipt \/ PollRaises \/ WaitTimeout

SpecWait == InitLedger /\ [][NextWait]_vars

\* ------------------------------------------------- ledger merges, in order
\* save_successful_deposits (populate_successful.py): load, update,
\* overwrite.
save_successful_deposits(file, pubkeys, io_ok, wr) ==
    WriteFile(file, load_successful_deposits(file, io_ok) \cup pubkeys, wr)

MergeSets == (SUBSET Pubkeys) \ {{}}

\* Two copies of the same ledger file, to be merged into in either order.
MergeStart ==
    /\ mpc = "idle"
    /\ \E a \in MergeSets, b \in MergeSets : mergeA' = a /\ mergeB' = b
    /\ ledgerAB' = ledgerFile
    /\ ledgerBA' = ledgerFile
    /\ mpc' = "first"
    /\ UNCHANGED <<driverVars, procVars, waitVars, ledgerFile>>

\* The first call: A into one copy, B into the other, under the same I/O
\* conditions.
MergeFirst ==
    /\ mpc = "first"
    /\ \E io_ok \in BOOLEAN, wr \in WriteOutcomes :
         /\ ledgerAB' = save_successful_deposits(ledgerAB, mergeA, io_ok, wr)
         /\ ledgerBA' = save_successful_deposits(ledgerBA, mergeB, io_ok, wr)
    /\ mpc' = "second"
    /\ UNCHANGED <<driverVars, procVars, waitVars, ledgerFile, mergeA, mergeB>>

\* The second call: the other set.
MergeSecond ==
    /\ mpc = "second"
    /\ \E io_ok \in BOOLEAN, wr \in WriteOutcomes :
         /\ ledgerAB' = save_successful_deposits(ledgerAB, mergeB, io_ok, wr)
         /\ ledgerBA' = save_successful_deposits(ledgerBA, mergeA, io_ok, wr)
    /\ mpc' = "merged"
    /\ UNCHANGED <<driverVars, procVars, waitVars, ledgerFile, mergeA, mergeB>>

NextMerge == MergeStart \/ MergeFirst \/ MergeSecond

SpecMerge == InitLedger /\ [][NextMerge]_vars

\* One batch run, from any ledger and balance.
Spec == Init /\ [][Next]_vars

\* Repeated batch runs over the same input.
NextRuns == Next \/ Rerun

SpecRuns == Init /\ [][NextRuns]_vars

\* ================================================================== claims
PubkeyOf(j) == deposit_data[j]["pubkey"]

\* Chain calls made for record j in this run.
CallsFor(j) == {c \in calls : c[1] = j}

SubmissionCalls == {"get_transaction_count", "estimate_gas", "sign", "send"}

NoSubmissionStep(j) ==
    /\ \A c \in CallsFor(j) : c[2] \notin SubmissionCalls
    /\ \A k \in 1..Len(txs) : ~(txs[k].run = run /\ txs[k].idx = j)

\* Transactions the chain accepted in this run for record j.
TxsOf(j) == {k \in 1..Len(txs) : txs[k].run = run /\ txs[k].idx = j}

C2_NeverDoubleSpend ==
    [][Len(txs') > Len(txs) => txs'[Len(txs')].pubkey \notin Deposited]_vars

\* Records confirmed in this run before the loop came to record j.
ConfirmedBefore(j) == Cardinality({k \in Records : k < j /\ outcome[k] = "Confirmed"})

\* The balance the run read when it started (one run: nothing was spent before).
StartBalance ==
    balance + required_balance * Cardinality({k \in 1..Len(txs) : txs[k].status = "ok"})

\* Outcomes of a record that got past the capacity check.
PastCapacity ==
    {"Invalid", "Error", "EstimateFailed", "SendFailed", "Confirmed", "Reverted",
     "TimedOut"}

\* C6 Capacity halt: N = start balance // 32 ETH is fixed for the run; the run
\* confirms at most N records, records skipped as AlreadyDone are not counted,
\* a record is validated, estimated or submitted only while fewer than N are
\* confirmed, and the first record that is not already done once N are
\* confirmed halts the batch: nothing after it is touched.
C6_CapacityHalt ==
    run >= 1 =>
        /\ max_validators = StartBalance \div required_balance
        /\ processed_count = Cardinality({j \in Records : outcome[j] = "Confirmed"})
        /\ processed_count <= max_validators
        /\ pc \in {"send", "wait"} => processed_count < max_validators
        /\ \A j \in Records :
               /\ (outcome[j] \in PastCapacity \/ CallsFor(j) # {} \/ TxsOf(j) # {})
                      => ConfirmedBefore(j) < max_validators
               /\ outcome[j] = "OverCapacity" =>
                      /\ ConfirmedBefore(j) >= max_validators
                      /\ pc = "halted" /\ i = j
                      /\ \A k \in Records :
                             k >= j => (CallsFor(k) = {} /\ TxsOf(k) = {})
                      /\ \A k \in Records : k > j => outcome[k] = "Pending"
        /\ pc = "halted" => outcome[i] = "OverCapacity"

\* The batch halted with the capacity used up by a confirmed record.
C6_Witness ==
    /\ pc = "halted"
    /\ max_validators >= 1
    /\ processed_count = max_validators
    /\ i \in Records /\ outcome[i] = "OverCapacity"

\* C7 Validation never aborts the batch: a record that lacks one of the four
\* fields, or has malformed hex in one, is skipped without a submission step
\* and the driver goes on (it is never the record the run dies on).
C7_ValidationNeverAborts ==
    \A j \in Records :
        (~validate_deposit_data(deposit_data[j]) /\ outcome[j] # "Pending") =>
            /\ outcome[j] \in {"Invalid", "AlreadyDone", "OverCapacity"}
            /\ NoSubmissionStep(j)
            /\ pc # "aborted"

\* C8 A successful send consumes its nonce for the rest of the run: no two
\* transactions the chain accepted in one run for different records carry the
\* same nonce.
C8_NonceNotReused ==
    \A a, b \in 1..Len(txs) :
        (txs[a].run = txs[b].run /\ txs[a].idx # txs[b].idx) =>
            txs[a].nonce # txs[b].nonce

\* C9 When estimate_gas fails for a record, the step that abandons it makes no
\* sign or send call, leaves the chain's transactions, the account nonce, the
\* persisted ledger and processed_count as they were, and moves the loop to
\* the next record.
C9_EstimateFailureSkips ==
    [][(AtRecord /\ outcome[i] = "Pending" /\ outcome'[i] = "EstimateFailed") =>
          /\ <<i, "estimate_gas">> \in calls'
          /\ <<i, "sign">> \notin calls'
          /\ <<i, "send">> \notin calls'
          /\ txs' = txs
          /\ chainNonce' = chainNonce
          /\ ledgerFile' = ledgerFile
          /\ processed_count' = processed_count
          /\ pc' = "loop"
          /\ i' = i + 1]_vars

\* An estimation failure was followed by a confirmed later record.
C9_Witness ==
    \E j, k \in Records :
        /\ j < k
        /\ outcome[j] = "EstimateFailed"
        /\ TxsOf(j) = {}
        /\ outcome[k] = "Confirmed"

FailedOutcomes == {"Reverted", "TimedOut", "SendFailed", "EstimateFailed"}

\* C10 The driver writes an identity to the ledger only after confirmed
\* success: every identity the file holds that it did not hold when the run
\* loaded it belongs to a record of this run whose transaction showed a
\* success receipt; a record that reverted, timed out, failed to send or failed
\* estimation is never added, and (the load having succeeded) is not in the
\* ledger afterwards, so the next run takes it up again.
C10_LedgerOnlyAfterConfirmed ==
    run >= 1 =>
        /\ \A id \in LedgerIds(ledgerFile) \ ledgerAtLoad :
               \E j \in Records :
                   /\ HasPubkey(deposit_data[j]) /\ PubkeyOf(j) = id
                   /\ outcome[j] = "Confirmed"
                   /\ \E k \in TxsOf(j) : txs[k].status = "ok"
        /\ \A j \in Records :
               outcome[j] \in FailedOutcomes =>
                   /\ PubkeyOf(j) \notin LedgerIds(ledgerFile) \ ledgerAtLoad
                   /\ successful_deposits = ledgerAtLoad =>
                          PubkeyOf(j) \notin LedgerIds(ledgerFile)

\* One record was confirmed and written, another timed out or reverted.
C10_Witness ==
    /\ \E j \in Records :
           /\ outcome[j] = "Confirmed"
           /\ PubkeyOf(j) \in LedgerIds(ledgerFile) \ ledgerAtLoad
    /\ \E j \in Records : outcome[j] \in {"Reverted", "TimedOut"}

\* Process p made its call while no other process touched the file.
Alone(p) == \A q \in Procs \ {p} : lpc[q] = "idle"

\* C3 The persisted ledger is append-only: after a save call (whatever its
\* load returned, a load that failed soft to the empty set included), every
\* identity the file held before the call is still in it.  Stated for a call
\* that ran alone, so that no other writer is involved.
C3_AppendOnly ==
    \A p \in Procs :
        (lpc[p] = "returned" /\ Alone(p)) =>
            LedgerIds(before[p]) \subseteq LedgerIds(ledgerFile)

\* C4 Two runs over disjoint records saving at the same time: whatever the
\* interleaving of their load, add and write steps, once both calls have
\* returned without an I/O error the file holds the identities of both.
C4_ConcurrentUnion ==
    (/\ \A p \in Procs : lpc[p] = "returned" /\ fault[p] = "none"
     /\ arg[1] \cap arg[2] = {})
        => (arg[1] \cup arg[2]) \subseteq LedgerIds(ledgerFile)

\* C5 Ledger persistence is atomic with respect to crashes: when a process
\* dies inside a save call on a ledger that held identities, the file
\* afterwards parses and holds the set from before the call or the set the
\* call was writing; it is never truncated or unparsable.
C5_CrashAtomic ==
    \A p \in Procs :
        (lpc[p] = "crashed" /\ Alone(p) /\ fault[p] = "none"
         /\ LedgerIds(before[p]) # {}) =>
            /\ ledgerFile.kind = "ok"
            /\ LedgerIds(ledgerFile) \in
                   {LedgerIds(before[p]), LedgerIds(before[p]) \cup arg[p]}

RunOver == pc \in {"done", "halted", "aborted"}

\* Skipped(AlreadyDone), Skipped(Invalid), Confirmed and FailedTerminal.
SettledOutcomes ==
    {"AlreadyDone", "Invalid", "Confirmed", "Error"} \cup FailedOutcomes

\* C12 When a batch run has ended, every input record is Skipped(AlreadyDone),
\* Skipped(Invalid), Confirmed or FailedTerminal, unless the batch halted on
\* OverCapacity; and a run that ended before its last record ended by the
\* OverCapacity halt.
C12_EveryRecordSettled ==
    RunOver =>
        /\ pc = "halted" \/ \A j \in Records : outcome[j] \in SettledOutcomes
        /\ i <= Len(deposit_data) => pc = "halted"

\* ------------------------------------------------------------ ledger merge
\* C13 Ledger merge is order-independent: from the same persisted ledger,
\* merging A then B leaves the same persisted set as merging B then A, and
\* that set is the union of the starting set, A and B.
C13_MergeOrderIndependent ==
    mpc = "merged" =>
        /\ LedgerIds(ledgerAB) = LedgerIds(ledgerBA)
        /\ LedgerIds(ledgerAB) = LedgerIds(ledgerFile) \cup mergeA \cup mergeB

\* C14 get_gas_price never fails its caller: whatever the fee-history query
\* does (answers, raises, answers with an empty reward list or without one)
\* the driver gets a fee value and goes on to gas estimation and, from there,
\* to the send step; the value is the fixed fallback of 50 gwei when the query
\* or the reading of its answer fails, and base fee plus 2 gwei when the
\* reward list is empty.
C14_GasPriceNeverFails ==
    /\ \A j \in Records :
           <<j, "get_gas_price">> \in calls => <<j, "estimate_gas">> \in calls
    /\ (pc = "send" /\ tx.attempt = 0) =>
           /\ <<i, "get_gas_price">> \in calls
           /\ tx.maxFeePerGas[1] \in Nat /\ tx.maxFeePerGas[2] \in Nat \ {0}
           /\ GasPriceRaises(tx.fee_history) =>
                  tx.maxFeePerGas = <<50 * WeiPerGwei, 1>>
           /\ tx.fee_history = EmptyReward =>
                  tx.maxFeePerGas = <<1 + 2 * WeiPerGwei, 1>>

\* A record whose fee-history query raised is at the send step.
C14_Witness ==
    pc = "send" /\ tx.attempt = 0 /\ tx.fee_history = RpcFailure

\* ------------------------------------------------------------- the waiter
\* C15 wait_for_transaction makes at most max_attempts (50) receipt queries.
\* A query is made only while every answer so far was "not found"; the first
\* receipt ends the wait, as Confirmed for status 1 and as Reverted for any
\* other status; TimedOut is the result exactly after 50 "not found" answers,
\* without a further query; once the wait has ended the waiter queries no
\* more and its result stands.
C15_WaitBounded ==
    [][/\ polls' <= max_attempts
       /\ polls' # polls => (wpc = "polling" /\ waited = "none" /\ polls' = polls + 1)
       /\ (wpc' = "polling" /\ wpc = "polling") => waited' = "none"
       /\ waited' \in {"Confirmed", "Reverted"} => (wpc' = "returned" /\ polls' >= 1)
       /\ (waited' = "TimedOut" /\ waited # "TimedOut") =>
              (polls = max_attempts /\ polls' = polls /\ wpc' = "returned")
       /\ wpc \in {"returned", "raised"} => UNCHANGED waitVars]_vars

\* The wait ended TimedOut after 50 queries.
C15_Witness == wpc = "returned" /\ waited = "TimedOut" /\ polls = max_attempts

\* The fee cap after n escalations of the cap `fee`.
RECURSIVE Escalated(_, _)
Escalated(fee, n) ==
    IF n = 0 THEN fee
    ELSE LET prev == Escalated(fee, n - 1)
         IN  <<(3 * prev[1]) \div (2 * prev[2]), 1>>

\* A step of the driver that is a sign-and-send call.
SendStep == pc = "send" /\ (pc' # "send" \/ tx' # tx)

\* C16 The send retry is bounded: send_transaction makes at most max_retries
\* (3) sign-and-send calls, it stops at the first accepted send, it raises
\* the fee cap exactly once after each failed attempt but the last, and when
\* the last attempt fails the record ends as a failed send while the driver
\* goes on to the next record.
C16_SendRetryBounded ==
    [][/\ pc' \in {"send", "wait"} =>
              /\ tx'.attempt \in 0..(max_retries - 1)
              /\ tx'.maxFeePerGas =
                     Escalated(get_gas_price(tx'.fee_history), tx'.attempt)
       /\ SendStep =>
              /\ <<i, "sign">> \in calls'
              /\ \/ pc' = "wait" /\ tx'.attempt = tx.attempt
                                /\ <<i, "send">> \in calls' /\ Len(txs') = Len(txs) + 1
                 \/ pc' = "send" /\ tx'.attempt = tx.attempt + 1 /\ txs' = txs
                 \/ /\ pc' = "loop" /\ tx.attempt = max_retries - 1 /\ txs' = txs
                    /\ outcome'[i] = "SendFailed" /\ i' = i + 1
       /\ pc = "wait" =>
              (calls' \subseteq calls \cup {<<i, "save_error">>} /\ Len(txs') = Len(txs))
       /\ (pc = "wait" /\ pc' = "wait") => tx' = tx]_vars

\* A record's three attempts all failed and the next record was confirmed.
C16_Witness ==
    \E j \in Records :
        /\ outcome[j] = "SendFailed"
        /\ j + 1 \in Records
        /\ outcome[j + 1] = "Confirmed"

\* The fields of the transaction dict other than the fee cap.
FrameFields == {"to", "nonce", "value", "data", "gas", "maxPriorityFeePerGas"}

\* C17 A retried send reuses the same transaction: between attempts nonce,
\* calldata, value, gas limit, recipient and maxPriorityFeePerGas are
\* unchanged and maxFeePerGas is the only field modified; the account nonce
\* is not read again, whatever the chain did in the meantime, and the attempt
\* the chain accepts carries that nonce.
C17_RetryReusesTransaction ==
    [][/\ (pc = "send" /\ pc' = "send") =>
              /\ \A f \in FrameFields : tx'[f] = tx[f]
              /\ calls' \subseteq calls \cup {<<i, "sign">>}
       /\ (pc = "send" /\ pc' = "wait") =>
              /\ \A f \in FrameFields \cup {"maxFeePerGas"} : tx'[f] = tx[f]
              /\ txs'[Len(txs')].nonce = tx.nonce]_vars

\* A retry with a nonce the chain has used up since the transaction was built.
C17_Witness == pc = "send" /\ tx.attempt >= 1 /\ tx.nonce < chainNonce

\* ------------------------------------------------------- ledger write fails
\* The step in which the save for the confirmed record i fails.
SaveFails == pc = "wait" /\ <<i, "save_error">> \in calls' \ calls

Broadcast == {txs[k].idx : k \in {n \in 1..Len(txs) : txs[n].run = run}}

\* C19 The balance ceiling bounds what is broadcast: in one run the number of
\* records for which a deposit transaction was accepted by the chain never
\* exceeds start balance // 32 ETH, also when earlier transactions of the run
\* timed out or reverted.
C19_BroadcastWithinCeiling ==
    run >= 1 => Cardinality(Broadcast) <= StartBalance \div required_balance

\* C20 Every transaction the driver signs has maxFeePerGas at least
\* maxPriorityFeePerGas (the fixed 2 gwei), for every value get_gas_price can
\* return and after every escalation.
C20_FeeCapCoversTip ==
    [][SendStep => FeeGE(tx.maxFeePerGas, tx.maxPriorityFeePerGas)]_vars

====
